---- MODULE Spec2Model ----
(***************************************************************************)
(* A model of xmler.py: LXML (record generation, encode, decode), Zip      *)
(* (archive build through a process pool, archive read), CSV (the two      *)
(* tables, computed through a process pool and written), and the main      *)
(* program that runs generate_files, read_generated and CSV.write in turn. *)
(***************************************************************************)
EXTENDS Integers, Sequences, FiniteSets, TLC

\* ------------------------------------------------------------------ bounds
\* Largest archive count (ZIP_COUNT) the configurations range over, and the
\* largest per-archive document count (XML_COUNT) of those with any number of
\* archives.
MaxZipCount == 2
MaxPooledXmlCount == 1
\* Largest document count of the configurations with one archive, and of the
\* generators run alone.
MaxXmlCount == 2
\* Largest level_max and objects_max the codec configurations range over.
MaxLevelMax == 2
MaxObjectsMax == 2
\* Largest number of batches and of records per batch handed to CSV.write.
MaxBatches == 2
MaxBatchLen == 2
\* Largest number of environment faults (a worker dying, a damaged member).
MaxFaults == 1

\* Outcomes of the random source that the model samples.
HexTokens == {"0f", "a3"}
UrlTokens == {"Qx", "_z"}

VARIABLES
    lxml,             \* the LXML object's fields (xmler.py 39-43)
    zip_count,        \* the count given to generate_files
    pc,               \* the phase the main program is in
    exc,              \* the exception that ended the run there, "" when none
    fs,               \* the working directory: file name -> content
    generated_files,  \* Zip.generated_files
    loaded_data,      \* Zip.loaded_data
    tasks,            \* the pool's tasks of the running map call
    completed,        \* task indices in the order the pool got their results
    parts,            \* the list p.map returned to CSV.write, per table
    df,               \* the concatenated tables df1 and df2
    built,            \* per build task, the records its generator has yielded
    log,              \* the count of each file event <<kind, task, name>>
    faults,           \* environment faults so far
    overtaken,        \* whether a task ever returned before an earlier one
    gen,              \* one generator of LXML.generate: yielded count, state
    rec,              \* the values the generator drew for its last document
    doc,              \* the last document it yielded
    decoded           \* what LXML.read returned for doc, <<>> before the call

vars == <<lxml, zip_count, pc, exc, fs, generated_files, loaded_data, tasks,
          completed, parts, df, built, log, faults, overtaken, gen, rec, doc,
          decoded>>

\* ------------------------------------------------------- the random source
\* secrets.randbelow(n): an integer in [0, n).
randbelow(n) == 0 .. (n - 1)

\* secrets.token_hex(n): a hex string of n random bytes ("" for n = 0).
token_hex(n) == IF n = 0 THEN {""} ELSE HexTokens

\* secrets.token_urlsafe(n): a URL-safe string of n random bytes.
token_urlsafe(n) == IF n = 0 THEN {""} ELSE UrlTokens

\* ------------------------------------------------------------ element tree
PyNone == "<None>"

\* etree.Element(tag, **attrib)
Element(tag, attrib) == [tag |-> tag, attrib |-> attrib, children |-> <<>>]

\* element.extend(elements)
extend(e, elements) == [e EXCEPT !.children = @ \o elements]

\* element.get(key): the attribute's value, None when it has no such attribute
get(e, key) == IF key \in DOMAIN e.attrib THEN e.attrib[key] ELSE PyNone

\* The elements of a list of subtrees in document order.
RECURSIVE IterSeq(_)
IterSeq(els) ==
    IF els = <<>> THEN <<>>
    ELSE <<Head(els)>> \o IterSeq(Head(els).children) \o IterSeq(Tail(els))

\* element.iter(tag): the element and its descendants with that tag
iter(e, tag) == SelectSeq(IterSeq(<<e>>), LAMBDA x : x.tag = tag)

\* The first element of a sequence, as a list of at most one (None: empty).
First(s) == IF s = <<>> THEN <<>> ELSE <<Head(s)>>

\* root.find(".//var[@name='<name>']"): the first descendant var so named
FindVar(root, name) ==
    First(SelectSeq(IterSeq(root.children),
                    LAMBDA x : x.tag = "var" /\ get(x, "name") = name))

\* root.find("objects"): the first child with that tag
FindChild(root, tag) ==
    First(SelectSeq(root.children, LAMBDA x : x.tag = tag))

\* ------------------------------------------------------------------- LXML
\* secrets.randbelow(self.objects_max) + 1
DrawObjectCount(objects_max) == {n + 1 : n \in randbelow(objects_max)}

\* Variant: the level drawn without the + 1.
DrawLevelNoShift(level_max) == randbelow(level_max)

\* secrets.randbelow(self.level_max) + 1
DrawLevel(level_max) == {n + 1 : n \in randbelow(level_max)}

\* The values one iteration of LXML.generate draws: the object names, the
\* id and the level.
Draws(cfg) ==
    { [id |-> i, level |-> l, object_names |-> ns] :
        i \in token_hex(cfg.token_length),
        l \in DrawLevel(cfg.level_max),
        ns \in UNION { [1..n -> token_urlsafe(cfg.name_length)] :
                         n \in DrawObjectCount(cfg.objects_max) } }

\* Variant: the values of the two var entries exchanged.
BuildDocumentSwapped(r) ==
    LET objects == extend(Element("objects", <<>>),
                          [k \in 1..Len(r.object_names) |->
                              Element("object", [name |-> r.object_names[k]])])
    IN  extend(Element("root", <<>>),
               << Element("var", [name |-> "level", value |-> r.id]),
                  Element("var", [name |-> "id", value |-> ToString(r.level)]),
                  objects >>)

\* The document one iteration builds from the values drawn and yields.
BuildDocument(r) ==
    LET objects == extend(Element("objects", <<>>),
                          [k \in 1..Len(r.object_names) |->
                              Element("object", [name |-> r.object_names[k]])])
    IN  extend(Element("root", <<>>),
               << Element("var", [name |-> "id", value |-> r.id]),
                  Element("var", [name |-> "level", value |-> ToString(r.level)]),
                  objects >>)

\* LXML.read: the record of a document, or the AttributeError that calling a
\* method of None raises when find returned None.
LXML_read(root) ==
    LET _id == FindVar(root, "id")
        level == FindVar(root, "level")
        objects == FindChild(root, "objects")
    IN  IF _id = <<>> \/ level = <<>> \/ objects = <<>>
        THEN [exc |-> "AttributeError", value |-> <<>>]
        ELSE [exc |-> "",
              value |-> << [id |-> get(_id[1], "value"),
                            level |-> get(level[1], "value"),
                            object_names |->
                                [k \in 1..Len(iter(objects[1], "object")) |->
                                    get(iter(objects[1], "object")[k], "name")]] >>]

\* ---------------------------------------------------------------- helpers
EmptyMap == [x \in {} |-> 0]

\* One more occurrence of event e in the bag of file events.
LogAdd(l, e) ==
    IF e \in DOMAIN l THEN [l EXCEPT ![e] = @ + 1] ELSE (e :> 1) @@ l

LogCount(l, e) == IF e \in DOMAIN l THEN l[e] ELSE 0

\* Variant: one archive name for every prefix.
ZipNameFixed(prefix) == "0.zip"

\* f"{prefix}.zip"
ZipName(prefix) == ToString(prefix) \o ".zip"

\* Variant: member names counted from 1.
MemberNameFromOne(i) == ToString(i + 1) \o ".xml"

\* f"{i}.xml"
MemberName(i) == ToString(i) \o ".xml"

\* The record LXML.read returns for the values a generator drew.
RecordOf(r) ==
    [id |-> r.id, level |-> ToString(r.level), object_names |-> r.object_names]

\* ------------------------------------------------------------------- pool
\* Pool.map(func, iterable): one task per item, in the iterable's order.
Submit(items, empty) ==
    [i \in 1..Len(items) |->
        [arg |-> items[i], st |-> "queued", n |-> 0, result |-> empty,
         exc |-> ""]]

\* range(count) as a list
Range(count) == [i \in 1..count |-> i - 1]

\* Variant: map returns as soon as one task has returned.
MapDoneSome == tasks # <<>> /\ \E i \in DOMAIN tasks : tasks[i].st = "done"

\* map returns once every task has returned.
MapDone == \A i \in DOMAIN tasks : tasks[i].st = "done"

\* map raises once a task has raised and no worker is still in a task.
MapFailed ==
    /\ \E i \in DOMAIN tasks : tasks[i].st = "failed"
    /\ \A i \in DOMAIN tasks : tasks[i].st # "running"

\* The exception map re-raises: the first one a task raised.
MapException ==
    LET failed == SelectSeq(completed, LAMBDA i : tasks[i].st = "failed")
    IN  tasks[Head(failed)].exc

\* Whether task i, returning now, does so before a task submitted earlier.
Overtakes(i) == \E h \in 1..(i - 1) : tasks[h].st \in {"queued", "running"}

\* Variant: the results in the order the tasks returned.
MapResultByCompletion ==
    [k \in 1..Len(completed) |-> tasks[completed[k]].result]

\* The list map returns: the results in the order of the items.
MapResult == [i \in 1..Len(tasks) |-> tasks[i].result]

\* -------------------------------------------------------------------- Zip
\* ZipFile.namelist(): the member names in the order of the directory.
namelist(zf) == [j \in 1..Len(zf.members) |-> zf.members[j].filename]

\* ZipFile.open(name): the data of the directory's last member so named.
ZipOpen(zf, name) ==
    LET js == {j \in 1..Len(zf.members) : zf.members[j].filename = name}
    IN  zf.members[CHOOSE j \in js : \A h \in js : h <= j].data

\* The loop of Zip.read over the names left: res, or the first exception.
RECURSIVE ReadMembers(_, _, _)
ReadMembers(zf, names, res) ==
    IF names = <<>> THEN [exc |-> "", value |-> res]
    ELSE LET r == LXML_read(ZipOpen(zf, Head(names)))
         IN  IF r.exc # "" THEN [exc |-> r.exc, value |-> <<>>]
             ELSE ReadMembers(zf, Tail(names), res \o r.value)

\* As ReadMembers, a member that does not decode being skipped.
RECURSIVE ReadMembersSkipBad(_, _, _)
ReadMembersSkipBad(zf, names, res) ==
    IF names = <<>> THEN [exc |-> "", value |-> res]
    ELSE ReadMembersSkipBad(zf, Tail(names),
                            res \o LXML_read(ZipOpen(zf, Head(names))).value)

\* Variant of Zip.read: a member that does not decode is skipped.
Zip_readSkipBad(files, zip_file) ==
    IF zip_file \notin DOMAIN files
    THEN [exc |-> "FileNotFoundError", value |-> <<>>]
    ELSE ReadMembersSkipBad(files[zip_file], namelist(files[zip_file]), <<>>)

\* Variant of Zip.read: the last name of namelist() is left out.
Zip_readButLast(files, zip_file) ==
    IF zip_file \notin DOMAIN files
    THEN [exc |-> "FileNotFoundError", value |-> <<>>]
    ELSE ReadMembers(files[zip_file],
                     SubSeq(namelist(files[zip_file]), 1,
                            Len(files[zip_file].members) - 1), <<>>)

\* Zip.read(zip_file)
Zip_read(files, zip_file) ==
    IF zip_file \notin DOMAIN files
    THEN [exc |-> "FileNotFoundError", value |-> <<>>]
    ELSE ReadMembers(files[zip_file], namelist(files[zip_file]), <<>>)

\* -------------------------------------------------------------------- CSV
DataFrame(columns) == [columns |-> columns, rows |-> <<>>]

\* df.loc[len(df)] = row
LocAppend(d, row) == [d EXCEPT !.rows = Append(@, row)]

RECURSIVE parse_level_loop(_, _)
parse_level_loop(data, d) ==
    IF data = <<>> THEN d
    ELSE parse_level_loop(Tail(data),
                          LocAppend(d, <<Head(data).id, Head(data).level>>))

\* CSV.parse_level(data)
parse_level(data) == parse_level_loop(data, DataFrame(<<"id", "level">>))

RECURSIVE parse_objects_inner(_, _, _)
parse_objects_inner(id, names, d) ==
    IF names = <<>> THEN d
    ELSE parse_objects_inner(id, Tail(names), LocAppend(d, <<id, Head(names)>>))

RECURSIVE parse_objects_loop(_, _)
parse_objects_loop(data, d) ==
    IF data = <<>> THEN d
    ELSE parse_objects_loop(Tail(data),
             parse_objects_inner(Head(data).id, Head(data).object_names, d))

\* CSV.parse_objects(data)
parse_objects(data) ==
    parse_objects_loop(data, DataFrame(<<"id", "object_name">>))

\* pandas.concat(frames) of a list that is not empty: the rows, frame by frame.
RECURSIVE concat(_)
concat(frames) ==
    IF Len(frames) = 1 THEN Head(frames)
    ELSE [Head(frames) EXCEPT !.rows = @ \o concat(Tail(frames)).rows]

\* df.to_csv(name, index=False): the header row and the rows
to_csv(d) == [header |-> d.columns, rows |-> d.rows]

\* Variant: the program goes on after an exception.
AliveAfterException == TRUE

\* An exception nothing catches ends the program: no statement runs after it.
Alive == exc = ""

\* ------------------------------------------------------------------- Init
\* Before any phase: nothing generated, nothing on disk.
Idle ==
    /\ pc = "Idle"
    /\ exc = ""
    /\ fs = EmptyMap
    /\ generated_files = <<>>
    /\ loaded_data = <<>>
    /\ tasks = <<>>
    /\ completed = <<>>
    /\ parts = [levels |-> <<>>, objects |-> <<>>]
    /\ df = [levels |-> <<>>, objects |-> <<>>]
    /\ built = <<>>
    /\ log = EmptyMap
    /\ faults = 0
    /\ overtaken = FALSE
    /\ gen = [yielded |-> 0, state |-> "suspended"]
    /\ rec = <<>>
    /\ doc = <<>>
    /\ decoded = <<>>

\* The main program's objects as constructed (xmler.py 151-159), with small
\* counts in place of the program's constants: any number of archives of few
\* documents (one name, two ids), or one archive of more documents (two
\* names, two ids).
Init ==
    /\ \/ /\ zip_count \in 0..MaxZipCount
          /\ lxml \in [xml_count : 0..MaxPooledXmlCount, token_length : {1},
                       level_max : {1}, name_length : {0}, objects_max : {1}]
       \/ /\ zip_count = 1
          /\ lxml \in [xml_count : 0..MaxXmlCount, token_length : {1},
                       level_max : {1}, name_length : {1}, objects_max : {1}]
    /\ Idle

\* ------------------------------------------------------------ main: build
\* generate_files(count): the pool is given one create task per prefix.
GenerateFilesCall ==
    /\ pc = "Idle"
    /\ Alive
    /\ pc' = "Building"
    /\ tasks' = Submit(Range(zip_count), "")
    /\ built' = [i \in 1..zip_count |-> <<>>]
    /\ completed' = <<>>
    /\ UNCHANGED <<overtaken, lxml, zip_count, exc, fs, generated_files,
                   loaded_data, parts, df, log, faults, gen, rec, doc,
                   decoded>>

\* Zip.create in a worker: ZipFile(zip_name, mode="w") creates the file anew.
CreateOpen(i) ==
    /\ pc = "Building"
    /\ Alive
    /\ tasks[i].st = "queued"
    /\ LET zip_name == ZipName(tasks[i].arg)
       IN  /\ fs' = (zip_name :> [members |-> <<>>, closed |-> FALSE]) @@ fs
           /\ log' = LogAdd(log, <<"create", i, zip_name>>)
    /\ tasks' = [tasks EXCEPT ![i].st = "running"]
    /\ UNCHANGED <<overtaken, lxml, zip_count, pc, exc, generated_files,
                   loaded_data, completed, parts, df, built, faults, gen,
                   rec, doc, decoded>>

\* One iteration of create's loop: the generator yields its next document and
\* writestr adds it as member f"{i}.xml".
CreateWrite(i) ==
    /\ pc = "Building"
    /\ Alive
    /\ tasks[i].st = "running"
    /\ tasks[i].n < lxml.xml_count
    /\ \E r \in Draws(lxml) :
         LET zip_name == ZipName(tasks[i].arg)
             member == [filename |-> MemberName(tasks[i].n),
                        data |-> BuildDocument(r)]
         IN  /\ fs' = [fs EXCEPT ![zip_name].members = Append(@, member)]
             /\ log' = LogAdd(log, <<"write", i, zip_name>>)
             /\ built' = [built EXCEPT ![i] = Append(@, r)]
    /\ tasks' = [tasks EXCEPT ![i].n = @ + 1]
    /\ UNCHANGED <<overtaken, lxml, zip_count, pc, exc, generated_files,
                   loaded_data, completed, parts, df, faults, gen, rec, doc,
                   decoded>>

\* The generator is exhausted: the archive is closed and its name returned.
CreateReturn(i) ==
    /\ pc = "Building"
    /\ Alive
    /\ tasks[i].st = "running"
    /\ tasks[i].n >= lxml.xml_count
    /\ LET zip_name == ZipName(tasks[i].arg)
       IN  /\ fs' = [fs EXCEPT ![zip_name].closed = TRUE]
           /\ tasks' = [tasks EXCEPT ![i].st = "done", ![i].result = zip_name]
    /\ completed' = Append(completed, i)
    /\ overtaken' = (overtaken \/ Overtakes(i))
    /\ UNCHANGED <<lxml, zip_count, pc, exc, generated_files, loaded_data,
                   parts, df, built, log, faults, gen, rec, doc, decoded>>

\* The environment: a task raises as a worker starts it (an OSError of the
\* file system when ZipFile creates the file, of the worker's memory).
WorkerFault(i) ==
    /\ pc \in {"Building", "AggLevels", "AggObjects"}
    /\ Alive
    /\ faults < MaxFaults
    /\ tasks[i].st = "queued"
    /\ tasks' = [tasks EXCEPT ![i].st = "failed", ![i].exc = "OSError"]
    /\ completed' = Append(completed, i)
    /\ overtaken' = (overtaken \/ Overtakes(i))
    /\ faults' = faults + 1
    /\ UNCHANGED <<lxml, zip_count, pc, exc, fs, generated_files, loaded_data,
                   parts, df, built, log, gen, rec, doc, decoded>>

\* p.map returns the names, the pool is left and generate_files stores them.
GenerateFilesReturn ==
    /\ pc = "Building"
    /\ Alive
    /\ MapDone
    /\ generated_files' = MapResult
    /\ pc' = "Reading"
    /\ tasks' = <<>>
    /\ completed' = <<>>
    /\ UNCHANGED <<overtaken, lxml, zip_count, exc, fs, loaded_data, parts,
                   df, built, log, faults, gen, rec, doc, decoded>>

\* p.map raises: nothing catches it in generate_files, in the timing wrapper
\* or in the main program.
MapRaise ==
    /\ pc \in {"Building", "AggLevels", "AggObjects"}
    /\ Alive
    /\ MapFailed
    /\ exc' = MapException
    /\ UNCHANGED <<overtaken, lxml, zip_count, pc, fs, generated_files,
                   loaded_data, tasks, completed, parts, df, built, log,
                   faults, gen, rec, doc, decoded>>

\* ------------------------------------------------------------- main: read
\* One iteration of read_generated's loop: Zip.read of the next name, its
\* list appended; an exception of Zip.read is caught nowhere.
ReadNext ==
    /\ pc = "Reading"
    /\ Alive
    /\ Len(loaded_data) < Len(generated_files)
    /\ LET filename == generated_files[Len(loaded_data) + 1]
           r == Zip_read(fs, filename)
       IN  /\ log' = LogAdd(log, <<"read", 0, filename>>)
           /\ IF r.exc # ""
              THEN exc' = r.exc /\ UNCHANGED loaded_data
              ELSE loaded_data' = Append(loaded_data, r.value) /\ UNCHANGED exc
    /\ UNCHANGED <<overtaken, lxml, zip_count, pc, fs, generated_files,
                   tasks, completed, parts, df, built, faults, gen, rec, doc,
                   decoded>>

\* The environment: a member of the archive read next, which decoded so far,
\* loses its id entry, its level entry or its object container.
Without(root, entry) ==
    [root EXCEPT !.children =
        SelectSeq(@, LAMBDA x : ~ (IF entry = "objects" THEN x.tag = "objects"
                                   ELSE x.tag = "var" /\ get(x, "name") = entry))]

Damage(k, j, entry) ==
    /\ pc = "Reading"
    /\ Alive
    /\ faults < MaxFaults
    /\ k = Len(loaded_data) + 1
    /\ Zip_read(fs, generated_files[k]).exc = ""
    /\ j \in 1..Len(fs[generated_files[k]].members)
    /\ fs' = [fs EXCEPT
                ![generated_files[k]].members[j].data = Without(@, entry)]
    /\ faults' = faults + 1
    /\ UNCHANGED <<overtaken, lxml, zip_count, pc, exc, generated_files,
                   loaded_data, tasks, completed, parts, df, built, log, gen,
                   rec, doc, decoded>>

\* -------------------------------------------------------- main: aggregate
\* read_generated returns and CSV.write(zipper.loaded_data) gives the pool one
\* parse_level task per batch.
WriteCall ==
    /\ pc = "Reading"
    /\ Alive
    /\ Len(loaded_data) = Len(generated_files)
    /\ pc' = "AggLevels"
    /\ tasks' = Submit(loaded_data, <<>>)
    /\ completed' = <<>>
    /\ UNCHANGED <<overtaken, lxml, zip_count, exc, fs, generated_files,
                   loaded_data, parts, df, built, log, faults, gen, rec, doc,
                   decoded>>

\* A worker runs parse_level or parse_objects on its batch.
ParseTask(i) ==
    /\ pc \in {"AggLevels", "AggObjects"}
    /\ Alive
    /\ tasks[i].st = "queued"
    /\ tasks' = [tasks EXCEPT
                   ![i].st = "done",
                   ![i].result = IF pc = "AggLevels" THEN parse_level(tasks[i].arg)
                                 ELSE parse_objects(tasks[i].arg)]
    /\ completed' = Append(completed, i)
    /\ overtaken' = (overtaken \/ Overtakes(i))
    /\ UNCHANGED <<lxml, zip_count, pc, exc, fs, generated_files, loaded_data,
                   parts, df, built, log, faults, gen, rec, doc, decoded>>

\* df1 = pandas.concat(p.map(cls.parse_level, data)): concat raises
\* ValueError for an empty list; then the parse_objects tasks are given out.
LevelsReturn ==
    /\ pc = "AggLevels"
    /\ Alive
    /\ MapDone
    /\ parts' = [parts EXCEPT !.levels = MapResult]
    /\ IF MapResult = <<>>
       THEN /\ exc' = "ValueError"
            /\ UNCHANGED <<pc, df, tasks, completed>>
       ELSE /\ df' = [df EXCEPT !.levels = <<concat(MapResult)>>]
            /\ pc' = "AggObjects"
            /\ tasks' = Submit(loaded_data, <<>>)
            /\ completed' = <<>>
            /\ UNCHANGED exc
    /\ UNCHANGED <<overtaken, lxml, zip_count, fs, generated_files,
                   loaded_data, built, log, faults, gen, rec, doc, decoded>>

\* df2 = pandas.concat(p.map(cls.parse_objects, data)), and the pool is left.
ObjectsReturn ==
    /\ pc = "AggObjects"
    /\ Alive
    /\ MapDone
    /\ parts' = [parts EXCEPT !.objects = MapResult]
    /\ IF MapResult = <<>>
       THEN /\ exc' = "ValueError"
            /\ UNCHANGED <<pc, df, tasks, completed>>
       ELSE /\ df' = [df EXCEPT !.objects = <<concat(MapResult)>>]
            /\ pc' = "Writing"
            /\ tasks' = <<>>
            /\ completed' = <<>>
            /\ UNCHANGED exc
    /\ UNCHANGED <<overtaken, lxml, zip_count, fs, generated_files,
                   loaded_data, built, log, faults, gen, rec, doc, decoded>>

\* df1.to_csv("levels.csv", index=False); df2.to_csv("objects.csv", index=False)
WriteTables ==
    /\ pc = "Writing"
    /\ Alive
    /\ fs' = ("levels.csv" :> to_csv(df.levels[1])) @@
             ("objects.csv" :> to_csv(df.objects[1])) @@ fs
    /\ pc' = "Done"
    /\ UNCHANGED <<overtaken, lxml, zip_count, exc, generated_files,
                   loaded_data, tasks, completed, parts, df, built, log,
                   faults, gen, rec, doc, decoded>>

Next ==
    \/ GenerateFilesCall
    \/ \E i \in DOMAIN tasks : CreateOpen(i)
    \/ \E i \in DOMAIN tasks : CreateWrite(i)
    \/ \E i \in DOMAIN tasks : CreateReturn(i)
    \/ \E i \in DOMAIN tasks : WorkerFault(i)
    \/ GenerateFilesReturn
    \/ MapRaise
    \/ ReadNext
    \/ \E k \in DOMAIN generated_files, j \in 1..lxml.xml_count,
          entry \in {"id", "level", "objects"} : Damage(k, j, entry)
    \/ WriteCall
    \/ \E i \in DOMAIN tasks : ParseTask(i)
    \/ LevelsReturn
    \/ ObjectsReturn
    \/ WriteTables

Spec == Init /\ [][Next]_vars

\* ------------------------------------------------- LXML alone: one generator
\* An LXML object of any small configuration, its generator not yet run.
InitCodec ==
    /\ zip_count = 0
    /\ lxml \in [xml_count : 0..MaxXmlCount, token_length : {1},
                 level_max : 1..MaxLevelMax, name_length : {1},
                 objects_max : 1..MaxObjectsMax]
    /\ Idle

\* next(generator): one iteration of the loop of LXML.generate.
GenNext ==
    /\ gen.state = "suspended"
    /\ gen.yielded < lxml.xml_count
    /\ \E r \in Draws(lxml) :
         /\ rec' = <<r>>
         /\ doc' = <<BuildDocument(r)>>
    /\ gen' = [gen EXCEPT !.yielded = @ + 1]
    /\ decoded' = <<>>
    /\ UNCHANGED <<overtaken, lxml, zip_count, pc, exc, fs, generated_files,
                   loaded_data, tasks, completed, parts, df, built, log,
                   faults>>

\* next(generator) when range(xml_count) is exhausted: StopIteration.
GenStop ==
    /\ gen.state = "suspended"
    /\ gen.yielded >= lxml.xml_count
    /\ gen' = [gen EXCEPT !.state = "exhausted"]
    /\ UNCHANGED <<overtaken, lxml, zip_count, pc, exc, fs, generated_files,
                   loaded_data, tasks, completed, parts, df, built, log,
                   faults, rec, doc, decoded>>

\* LXML.read of the document last yielded.
Decode ==
    /\ doc # <<>>
    /\ decoded = <<>>
    /\ decoded' = <<LXML_read(doc[1])>>
    /\ UNCHANGED <<overtaken, lxml, zip_count, pc, exc, fs, generated_files,
                   loaded_data, tasks, completed, parts, df, built, log,
                   faults, gen, rec, doc>>

NextCodec == GenNext \/ GenStop \/ Decode

SpecCodec == InitCodec /\ [][NextCodec]_vars

\* ------------------------------------------- CSV.write alone: any batches
\* Records as LXML.read returns them, with one and with two objects.
CsvRecords ==
    { [id |-> "0f", level |-> "1", object_names |-> <<"Qx">>],
      [id |-> "a3", level |-> "2", object_names |-> <<"Qx", "_z">>],
      [id |-> "0f", level |-> "2", object_names |-> <<"_z", "Qx">>] }

\* Every list of m batches of k records each.
CsvInputs ==
    UNION { [1..m -> [1..k -> CsvRecords]] :
              m \in 0..MaxBatches, k \in 0..MaxBatchLen }

\* CSV.write(data) has been called and has given out its parse_level tasks.
InitCsv ==
    /\ loaded_data \in CsvInputs
    /\ zip_count = Len(loaded_data)
    /\ lxml = [xml_count |-> 0, token_length |-> 1, level_max |-> 1,
               name_length |-> 1, objects_max |-> 1]
    /\ pc = "AggLevels"
    /\ exc = ""
    /\ fs = EmptyMap
    /\ generated_files = <<>>
    /\ tasks = Submit(loaded_data, <<>>)
    /\ completed = <<>>
    /\ parts = [levels |-> <<>>, objects |-> <<>>]
    /\ df = [levels |-> <<>>, objects |-> <<>>]
    /\ built = <<>>
    /\ log = EmptyMap
    /\ faults = 0
    /\ overtaken = FALSE
    /\ gen = [yielded |-> 0, state |-> "suspended"]
    /\ rec = <<>>
    /\ doc = <<>>
    /\ decoded = <<>>

NextCsv ==
    \/ \E i \in DOMAIN tasks : ParseTask(i)
    \/ \E i \in DOMAIN tasks : WorkerFault(i)
    \/ MapRaise
    \/ LevelsReturn
    \/ ObjectsReturn
    \/ WriteTables

SpecCsv == InitCsv /\ [][NextCsv]_vars

\* ================================================================ claims
\* The phase of the pipeline the main program is in.
Phase ==
    IF pc \in {"AggLevels", "AggObjects", "Writing"} THEN "Aggregating" ELSE pc

PhaseOrder ==
    {<<"Idle", "Building">>, <<"Building", "Reading">>,
     <<"Reading", "Aggregating">>, <<"Aggregating", "Done">>}

ArchiveNames == {n \in DOMAIN fs : "members" \in DOMAIN fs[n]}

ReadStarted == \E e \in DOMAIN log : e[1] = "read"

\* Whether two lists hold the same values the same number of times.
IsPermutation(a, b) ==
    /\ Len(a) = Len(b)
    /\ \A x \in {a[j] : j \in 1..Len(a)} :
          Cardinality({j \in 1..Len(a) : a[j] = x})
            = Cardinality({j \in 1..Len(b) : b[j] = x})

BuiltBeforeRead ==
    (ReadStarted \/ Phase \in {"Reading", "Aggregating", "Done"}) =>
       (/\ Len(generated_files) = zip_count
        /\ \A i \in 1..zip_count :
              /\ generated_files[i] \in ArchiveNames
              /\ fs[generated_files[i]].closed)

NothingReadWhileBuilding ==
    (Phase \in {"Idle", "Building"}) => (~ ReadStarted /\ loaded_data = <<>>)

ReadBeforeWrite ==
    (Phase \in {"Aggregating", "Done"}) => (Len(loaded_data) = zip_count)

\* C1: the main program goes from a phase only to the next one (Idle,
\* Building, Reading, Aggregating, Done); when the first archive is read
\* generate_files has returned the names of zip_count closed archives, and
\* when CSV.write runs read_generated has appended zip_count batches.
C1_PhasesInOrder ==
    /\ [][Phase' = Phase \/ <<Phase, Phase'>> \in PhaseOrder]_vars
    /\ [](BuiltBeforeRead /\ NothingReadWhileBuilding /\ ReadBeforeWrite)

C1_Witness ==
    pc = "Done" /\ zip_count >= 2 /\ lxml.xml_count >= 1

\* C2: whatever order the workers finish in, generated_files[i] is the name
\* f"{i}.zip" that build task i returned, loaded_data[i] is what Zip.read
\* gives for generated_files[i], and the i-th frame of each list given to
\* concat is the one computed from batch i.
C2_InputOrder ==
    /\ MapDone =>
          \A i \in 1..Len(tasks) :
             /\ MapResult[i] = tasks[i].result
             /\ pc = "Building" => MapResult[i] = ToString(i - 1) \o ".zip"
    /\ \A i \in 1..Len(generated_files) :
          generated_files[i] = ToString(i - 1) \o ".zip"
    /\ \A i \in 1..Len(loaded_data) :
          generated_files # <<>> =>
             loaded_data[i] = Zip_read(fs, generated_files[i]).value
    /\ \A i \in 1..Len(parts.levels) :
          parts.levels[i] = parse_level(loaded_data[i])
    /\ \A i \in 1..Len(parts.objects) :
          parts.objects[i] = parse_objects(loaded_data[i])

\* The run is over, a task returned before an earlier one in some map, and
\* the batches differ.
C2_Witness ==
    /\ pc = "Done"
    /\ overtaken
    /\ loaded_data[1] # loaded_data[2]
    /\ Len(parts.objects) = 2

\* C3: LXML.read of the document built from the values id, level and object
\* names returns the id, the level as its decimal string and the object names
\* in the same order.
C3_RoundTrip ==
    decoded # <<>> =>
       /\ decoded[1].exc = ""
       /\ decoded[1].value =
             << [id |-> rec[1].id,
                 level |-> ToString(rec[1].level),
                 object_names |-> rec[1].object_names] >>

C3_Witness ==
    /\ decoded # <<>>
    /\ rec[1].level = 2
    /\ Len(rec[1].object_names) = 2
    /\ rec[1].object_names[1] # rec[1].object_names[2]

\* C5: a closed archive has exactly xml_count members, the j-th named
\* f"{j}.xml" counting from 0, so no name is missing and none is repeated.
C5_Members ==
    \A name \in ArchiveNames :
       fs[name].closed =>
          /\ Len(fs[name].members) = lxml.xml_count
          /\ \A j \in 1..Len(fs[name].members) :
                fs[name].members[j].filename = ToString(j - 1) \o ".xml"
          /\ \A j, h \in 1..Len(fs[name].members) :
                fs[name].members[j].filename = fs[name].members[h].filename
                   => j = h

C5_Witness ==
    \E name \in ArchiveNames : fs[name].closed /\ Len(fs[name].members) = 2

\* C6: with no fault of the environment, Zip.read of the archive that build
\* task i closed returns as many records as the task's generator yielded, a
\* permutation of them, the j-th being the record of the j-th name of
\* namelist(); and the batch read_generated stored for it is such a list.
Yielded(i) == [j \in 1..Len(built[i]) |-> RecordOf(built[i][j])]

C6_ReadPermutation ==
    faults = 0 =>
       /\ \A i \in 1..Len(built) :
             LET name == ToString(i - 1) \o ".zip"
                 r == Zip_read(fs, name)
             IN  (name \in ArchiveNames /\ fs[name].closed) =>
                    /\ r.exc = ""
                    /\ Len(r.value) = Len(built[i])
                    /\ IsPermutation(r.value, Yielded(i))
                    /\ \A j \in 1..Len(r.value) :
                          <<r.value[j]>> =
                             LXML_read(ZipOpen(fs[name],
                                               namelist(fs[name])[j])).value
       /\ built # <<>> =>
             \A i \in 1..Len(loaded_data) :
                IsPermutation(loaded_data[i], Yielded(i))

C6_Witness ==
    /\ faults = 0
    /\ Len(loaded_data) >= 1
    /\ Len(loaded_data[1]) = 2
    /\ loaded_data[1][1] # loaded_data[1][2]

\* The number of object rows of the first n records of a batch, and of the
\* first n batches of a list of batches.
RECURSIVE ObjectsIn(_, _)
ObjectsIn(batch, n) ==
    IF n = 0 THEN 0
    ELSE ObjectsIn(batch, n - 1) + Len(batch[n].object_names)

RECURSIVE ObjectsInBatches(_, _)
ObjectsInBatches(data, n) ==
    IF n = 0 THEN 0
    ELSE ObjectsInBatches(data, n - 1) + ObjectsIn(data[n], Len(data[n]))

\* levels.csv holds one (id, level) row per record of data, batch by batch
\* and record by record: row (b-1)*k + r is that of record r of batch b.
LevelsTableOf(data) ==
    /\ "levels.csv" \in DOMAIN fs
    /\ fs["levels.csv"].header = <<"id", "level">>
    /\ \A b \in 1..Len(data) :
          /\ Len(fs["levels.csv"].rows) = Len(data) * Len(data[b])
          /\ \A r \in 1..Len(data[b]) :
                fs["levels.csv"].rows[(b - 1) * Len(data[b]) + r]
                   = <<data[b][r].id, data[b][r].level>>
    /\ data = <<>> => fs["levels.csv"].rows = <<>>

\* objects.csv holds one (id, object_name) row per object, batch by batch,
\* record by record and object by object.
ObjectsTableOf(data) ==
    /\ "objects.csv" \in DOMAIN fs
    /\ fs["objects.csv"].header = <<"id", "object_name">>
    /\ Len(fs["objects.csv"].rows) = ObjectsInBatches(data, Len(data))
    /\ \A b \in 1..Len(data) : \A r \in 1..Len(data[b]) :
          \A o \in 1..Len(data[b][r].object_names) :
             fs["objects.csv"].rows[ObjectsInBatches(data, b - 1)
                                    + ObjectsIn(data[b], r - 1) + o]
                = <<data[b][r].id, data[b][r].object_names[o]>>

\* CSV.write has ended, by returning or by raising.
WriteEnded == pc = "Done" \/ (Phase = "Aggregating" /\ exc # "")

\* C4: for every list of m >= 0 batches of k >= 0 records, once CSV.write
\* has ended with no fault of the environment, levels.csv holds one row per
\* record in batch-then-record order (m*k rows) and objects.csv one row per
\* object in batch-then-record-then-object order.
C4_Tables ==
    (WriteEnded /\ faults = 0) =>
       (LevelsTableOf(loaded_data) /\ ObjectsTableOf(loaded_data))

\* The same for m >= 1 batches, the lists for which pandas.concat returns.
C4_TablesOfOneOrMoreBatches ==
    (WriteEnded /\ faults = 0 /\ loaded_data # <<>>) =>
       (LevelsTableOf(loaded_data) /\ ObjectsTableOf(loaded_data))

C4_TablesWritten ==
    /\ pc = "Done"
    /\ Len(loaded_data) = 2
    /\ Len(loaded_data[1]) = 2
    /\ Len(fs["objects.csv"].rows) > Len(fs["levels.csv"].rows)

\* C7: the values a generator draws for a document have the level in
\* 1..level_max and 1..objects_max object names, the document holds as many
\* object elements, and the generator yields xml_count documents and stops.
C7_Generated ==
    /\ rec # <<>> =>
          /\ rec[1].level \in 1..lxml.level_max
          /\ Len(rec[1].object_names) \in 1..lxml.objects_max
          /\ Len(iter(doc[1], "object")) = Len(rec[1].object_names)
    /\ gen.yielded <= lxml.xml_count
    /\ gen.state = "exhausted" => gen.yielded = lxml.xml_count

C7_Witness ==
    /\ gen.state = "exhausted"
    /\ gen.yielded = 2
    /\ lxml.level_max = 2
    /\ rec[1].level = 2
    /\ lxml.objects_max = 2
    /\ Len(rec[1].object_names) = 2

\* Whether a document has no id entry, no level entry or no object container.
EntryAbsent(root) ==
    \/ ~ \E k \in 1..Len(root.children) : root.children[k].tag = "objects"
    \/ \E name \in {"id", "level"} :
          ~ \E k \in 1..Len(IterSeq(root.children)) :
               /\ IterSeq(root.children)[k].tag = "var"
               /\ "name" \in DOMAIN IterSeq(root.children)[k].attrib
               /\ IterSeq(root.children)[k].attrib.name = name

\* The archives of generated_files with a member whose document lacks an
\* entry, as indices into generated_files.
BadArchives ==
    {k \in 1..Len(generated_files) :
        /\ generated_files[k] \in ArchiveNames
        /\ \E j \in 1..Len(fs[generated_files[k]].members) :
              EntryAbsent(fs[generated_files[k]].members[j].data)}

\* C8: LXML.read of a document without its id entry, level entry or object
\* container raises (the AttributeError of a call on None) and returns no
\* record; Zip.read of an archive with such a member raises that same
\* exception and returns nothing, it is the exception the run ends with, and
\* no batch is stored for the archive.
C8_DecodeFails ==
    \A k \in BadArchives :
       LET zf == fs[generated_files[k]]
       IN  /\ \A j \in 1..Len(zf.members) :
                 EntryAbsent(zf.members[j].data) =>
                    LXML_read(zf.members[j].data)
                       = [exc |-> "AttributeError", value |-> <<>>]
           /\ Zip_read(fs, generated_files[k])
                 = [exc |-> "AttributeError", value |-> <<>>]
           /\ Len(loaded_data) < k
           /\ (/\ Len(loaded_data) = k - 1
               /\ LogCount(log, <<"read", 0, generated_files[k]>>) = 1)
                 => exc = "AttributeError"

\* The read of an archive with a member that decodes and one that lacks an
\* entry has raised.
C8_Witness ==
    /\ pc = "Reading"
    /\ exc = "AttributeError"
    /\ BadArchives = {1}
    /\ Len(fs[generated_files[1]].members) = 2
    /\ \E j \in 1..2 : ~ EntryAbsent(fs[generated_files[1]].members[j].data)

\* The csv files of the working directory.
CsvNames == DOMAIN fs \cap {"levels.csv", "objects.csv"}

\* C9: an exception of a unit of work ends the run: no step follows it, so
\* the phase it came in is the last one; no create task and no archive read
\* is run twice; the archive whose read raised has no batch in loaded_data;
\* and after an exception in Building or Reading no csv file exists.
C9_FailFast ==
    /\ [][exc = ""]_vars
    /\ [](/\ \A e \in DOMAIN log : e[1] \in {"create", "read"} => log[e] = 1
          /\ (exc # "" /\ pc = "Reading") =>
                Len(loaded_data) =
                   Cardinality({e \in DOMAIN log : e[1] = "read"}) - 1
          /\ (exc # "" /\ pc \in {"Building", "Reading"}) => CsvNames = {}
          /\ (exc # "" /\ pc = "Building") => generated_files = <<>>)

C9_Witness ==
    /\ pc = "Building"
    /\ exc = "OSError"
    /\ \E i \in DOMAIN tasks : tasks[i].st = "done"
    /\ ArchiveNames # {}

\* The program's create and write events on archives.
WriteEvents ==
    [e \in {x \in DOMAIN log : x[1] \in {"create", "write"}} |-> log[e]]

\* C10: build task i (prefix i-1) creates and writes only f"{i-1}.zip", so no
\* two tasks write one name; once Building is over every archive 0..N-1 has
\* been created once, by one task; no archive is created or written after
\* Building; and no archive is read twice, each being read once by the end.
C10_NoCollision ==
    /\ [](/\ \A e \in DOMAIN log :
                /\ e[1] \in {"create", "write"} =>
                      e[3] = ToString(e[2] - 1) \o ".zip"
                /\ e[1] = "create" => log[e] = 1
                /\ e[1] = "read" => log[e] = 1
          /\ \A e, f \in DOMAIN log :
                (e[1] # "read" /\ f[1] # "read" /\ e[3] = f[3]) => e[2] = f[2]
          /\ (Phase \in {"Reading", "Aggregating", "Done"}) =>
                \A n \in 0..(zip_count - 1) :
                   Cardinality({e \in DOMAIN log :
                                  /\ e[1] = "create"
                                  /\ e[3] = ToString(n) \o ".zip"}) = 1
          /\ (Phase \in {"Aggregating", "Done"}) =>
                \A n \in 0..(zip_count - 1) :
                   LogCount(log, <<"read", 0, ToString(n) \o ".zip">>) = 1)
    /\ [][(Phase \notin {"Idle", "Building"}) =>
             WriteEvents' = WriteEvents]_vars

C10_Witness ==
    /\ pc = "Done"
    /\ zip_count = 2
    /\ lxml.xml_count = 1
    /\ Cardinality(DOMAIN WriteEvents) = 4
====
